---- MODULE Spec2Model ----
(***************************************************************************)
(* The f64 AVX2 sum kernels of cfavml/src/danger/f64_avx2_sum.rs:          *)
(*   f64_xconst_avx2_nofma_sum_horizontal, f64_xany_avx2_nofma_sum_horizontal, *)
(*   f64_xconst_avx2_nofma_sum_vertical,   f64_xany_avx2_nofma_sum_vertical,   *)
(*   sum_x64_block and min_vertical_component.                             *)
(* One kernel call is one run from "idle" to "done" (or "panic", a failed  *)
(* debug assertion); every loop iteration is one step.  Elements are       *)
(* integer-valued doubles, so every addition is exact.                     *)
(***************************************************************************)
EXTENDS Integers, Sequences, FiniteSets

VARIABLES
    kernel,       \* the kernel being called, "none" when idle
    debug,        \* TRUE: built with debug assertions, FALSE: release build
    DIMS,         \* the const generic DIMS of an xconst kernel (0 for xany)
    x_pat,        \* which input buffer (x / matrix) the caller passed
    x_len,        \* x.len() / matrix.len()
    o_pat,        \* which output buffer contents the caller passed
    output,       \* the output buffer (vertical kernels), output[k+1] is slot k
    pc,           \* position in the code
    offset_from,  \* local offset_from of the xany kernels
    tail,         \* local tail of the xany kernels
    i,            \* loop index i
    j,            \* loop index j (row offset)
    accs,         \* acc1 .. acc8, four lanes each
    acc,          \* the single register acc of the 4-wide vertical tail
    extra,        \* the scalar carry of the xany horizontal kernel
    result,       \* the value a horizontal kernel returns
    reads,        \* element indices read from x / matrix, in order
    writes,       \* output indices written, in order
    count,        \* how often each primitive ran in this call
    panic,        \* why the call panicked, "none" if it did not
    last          \* the fixed-dimension call just made on the same buffers

vars == <<kernel, debug, DIMS, x_pat, x_len, o_pat, output, pc, offset_from,
          tail, i, j, accs, acc, extra, result, reads, writes, count, panic,
          last>>

(***************************************************************************)
(* Bounds of the model.                                                    *)
(***************************************************************************)
MaxLen == 71      \* horizontal kernels: vector lengths 0 .. MaxLen
MaxDims == 70     \* vertical kernels: dimensions 0 .. MaxDims
MaxRows == 2      \* vertical kernels: 0 .. MaxRows rows
MaxPat == 2       \* input buffers 1 .. MaxPat
MaxOPat == 1      \* output buffer contents 0 .. MaxOPat (0 is all zero)

Pats == 1..MaxPat
OPats == 0..MaxOPat

(***************************************************************************)
(* The buffers a caller passes.  X(p, k) is element k of input buffer p;   *)
(* O(q, k) is the value slot k of the output buffer holds before the call. *)
(***************************************************************************)
X(p, k) == IF k % (p + 1) = 0 THEN 0 - (k + 1) ELSE k + p

O(q, k) == IF q = 0 THEN 0 ELSE 10 * q + k

\* What a read past the end of the buffer may deliver (undefined behaviour).
Garbage == {0 - 1, 1}

ZeroPd == <<0, 0, 0, 0>>

ZeroAccs == [r \in 1..8 |-> ZeroPd]

ZeroCount == [block |-> 0, quad |-> 0, scalar |-> 0, rollup |-> 0]

NoCall == [kernel |-> "none", DIMS |-> 0, reads |-> <<>>, writes |-> <<>>,
           accs |-> ZeroAccs, result |-> 0, output |-> <<>>]

OutputOf(q, d) == [k \in 1..d |-> O(q, k - 1)]

(***************************************************************************)
(* Intrinsics and the helpers of crate::danger.                            *)
(***************************************************************************)
\* Element k of x / matrix as a load sees it; g is what lies past the end.
Elem(k, g) == IF k < x_len THEN X(x_pat, k) ELSE g

\* The four element indices of one 256-bit load at p.
LaneIdx(p) == [l \in 1..4 |-> p + l - 1]

LoaduPd(p, g) == [l \in 1..4 |-> Elem(p + l - 1, g)]

AddPd(a, b) == [l \in 1..4 |-> a[l] + b[l]]

\* A 256-bit store at slot p; lanes past the end of the buffer are not part
\* of the buffer.
StoreuPd(out, p, reg) ==
    [k \in 1..Len(out) |-> IF k - 1 >= p /\ k - 1 < p + 4 THEN reg[k - p]
                                                           ELSE out[k]]

CHUNK_0 == 0

CHUNK_1 == 1

OffsetsAvx2Pd(chunk, p) == [r \in 1..4 |-> p + chunk * 16 + (r - 1) * 4]

RollupX8Pd(a) ==
    AddPd(AddPd(AddPd(a[1], a[2]), AddPd(a[3], a[4])),
          AddPd(AddPd(a[5], a[6]), AddPd(a[7], a[8])))

SumAvx2Pd(a) == a[1] + a[2] + a[3] + a[4]

\* The garbage values a load ending at element index hi - 1 can see.
GarbageAt(hi) == IF hi <= x_len THEN {0} ELSE Garbage

(***************************************************************************)
(* sum_x64_block                                                           *)
(***************************************************************************)
BlockPtrs(p) == OffsetsAvx2Pd(CHUNK_0, p) \o OffsetsAvx2Pd(CHUNK_1, p)

BlockIdx(p) == [n \in 1..32 |-> BlockPtrs(p)[((n - 1) \div 4) + 1] + ((n - 1) % 4)]

SumX64Block(p, a, g) == [r \in 1..8 |-> AddPd(a[r], LoaduPd(BlockPtrs(p)[r], g))]

(***************************************************************************)
(* Entering and leaving a kernel.                                          *)
(***************************************************************************)
\* The locals of a call as they stand before its first loop.
Enter(k, dbg, D, p, n, q, out, pc0, off, why, lst) ==
    /\ kernel' = k
    /\ debug' = dbg
    /\ DIMS' = D
    /\ x_pat' = p
    /\ x_len' = n
    /\ o_pat' = q
    /\ output' = out
    /\ pc' = pc0
    /\ offset_from' = off
    /\ tail' = 0
    /\ i' = 0
    /\ j' = 0
    /\ accs' = ZeroAccs
    /\ acc' = ZeroPd
    /\ extra' = 0
    /\ result' = 0
    /\ reads' = <<>>
    /\ writes' = <<>>
    /\ count' = ZeroCount
    /\ panic' = why
    /\ last' = lst

Init ==
    /\ kernel = "none"
    /\ debug = FALSE
    /\ DIMS = 0
    /\ x_pat = 1
    /\ x_len = 0
    /\ o_pat = 0
    /\ output = <<>>
    /\ pc = "idle"
    /\ offset_from = 0
    /\ tail = 0
    /\ i = 0
    /\ j = 0
    /\ accs = ZeroAccs
    /\ acc = ZeroPd
    /\ extra = 0
    /\ result = 0
    /\ reads = <<>>
    /\ writes = <<>>
    /\ count = ZeroCount
    /\ panic = "none"
    /\ last = NoCall

\* What the finished call did, kept while the caller calls the xany kernel
\* on the same buffers.
Finished == [kernel |-> kernel, DIMS |-> DIMS, reads |-> reads,
             writes |-> writes, accs |-> accs, result |-> result,
             output |-> output]

\* The matrix lengths a caller passes with `rows` rows of dimension d.
MatrixLen(rows, d) == IF d = 0 THEN rows ELSE rows * d

\* dims of min_vertical_component and of the xany vertical kernel.
Dims == IF kernel = "xconst_v" THEN DIMS ELSE Len(output)

(***************************************************************************)
(* f64_xconst_avx2_nofma_sum_horizontal                                    *)
(***************************************************************************)
\* Mutation: the assertion on DIMS % 32 is missing.
XconstHAsserts_LenOnly(D, n) == n = D

\* debug_assert_eq!(DIMS % 32, 0); debug_assert_eq!(x.len(), DIMS);
XconstHAsserts(D, n) == D % 32 = 0 /\ n = D

XconstHBound(D) == D

CallXconstH ==
    /\ pc = "idle"
    /\ \E dbg \in BOOLEAN, D \in 0..MaxLen, p \in Pats :
         \E n \in {D, D - 1} \cap (0..MaxLen) :
            Enter("xconst_h", dbg, D, p, n, 0, <<>>,
                  IF dbg /\ ~XconstHAsserts(D, n) THEN "panic" ELSE "ch_block",
                  0,
                  IF dbg /\ ~XconstHAsserts(D, n) THEN "assert" ELSE "none",
                  NoCall)

XconstHBlock ==
    /\ pc = "ch_block"
    /\ i < XconstHBound(DIMS)
    /\ \E g \in GarbageAt(i + 32) :
         accs' = SumX64Block(i, accs, g)
    /\ reads' = reads \o BlockIdx(i)
    /\ count' = [count EXCEPT !.block = @ + 1]
    /\ i' = i + 32
    /\ UNCHANGED <<kernel, debug, DIMS, x_pat, x_len, o_pat, output, pc,
                   offset_from, tail, j, acc, extra, result, writes, panic,
                   last>>

XconstHBlockExit ==
    /\ pc = "ch_block"
    /\ ~(i < XconstHBound(DIMS))
    /\ pc' = "ch_rollup"
    /\ UNCHANGED <<kernel, debug, DIMS, x_pat, x_len, o_pat, output,
                   offset_from, tail, i, j, accs, acc, extra, result, reads,
                   writes, count, panic, last>>

XconstHRollup ==
    /\ pc = "ch_rollup"
    /\ result' = SumAvx2Pd(RollupX8Pd(accs))
    /\ count' = [count EXCEPT !.rollup = @ + 1]
    /\ pc' = "done"
    /\ UNCHANGED <<kernel, debug, DIMS, x_pat, x_len, o_pat, output,
                   offset_from, tail, i, j, accs, acc, extra, reads, writes,
                   panic, last>>

(***************************************************************************)
(* f64_xany_avx2_nofma_sum_horizontal                                      *)
(***************************************************************************)
\* Mutation: the remainder is taken modulo 64.
OffsetFrom_Mod64(n) == n % 64

OffsetFrom(n) == n % 32

TailOf(off) == off % 4

XanyHBlockBound(n, off) == n - off

XanyHQuadBound(n, t) == n - t

\* Mutation: the 4-wide tail adds into acc2.
XanyHQuadAdd_Acc2(a, v) == [a EXCEPT ![2] = AddPd(@, v)]

XanyHQuadAdd(a, v) == [a EXCEPT ![1] = AddPd(@, v)]

\* Mutation: the scalar carry is left out of the returned sum.
XanyHReturn_NoCarry(e, a) == SumAvx2Pd(RollupX8Pd(a))

XanyHReturn(e, a) == e + SumAvx2Pd(RollupX8Pd(a))

CallXanyH ==
    \/ /\ pc = "idle"
       /\ \E dbg \in BOOLEAN, n \in 0..MaxLen, p \in Pats :
            Enter("xany_h", dbg, 0, p, n, 0, <<>>, "ah_block", OffsetFrom(n),
                  "none", NoCall)
    \/ /\ pc = "done"
       /\ kernel = "xconst_h"
       /\ Enter("xany_h", debug, 0, x_pat, x_len, 0, <<>>, "ah_block",
                OffsetFrom(x_len), "none", Finished)

XanyHBlock ==
    /\ pc = "ah_block"
    /\ i < XanyHBlockBound(x_len, offset_from)
    /\ \E g \in GarbageAt(i + 32) :
         accs' = SumX64Block(i, accs, g)
    /\ reads' = reads \o BlockIdx(i)
    /\ count' = [count EXCEPT !.block = @ + 1]
    /\ i' = i + 32
    /\ UNCHANGED <<kernel, debug, DIMS, x_pat, x_len, o_pat, output, pc,
                   offset_from, tail, j, acc, extra, result, writes, panic,
                   last>>

\* The block loop is over: `if offset_from != 0 { let tail = offset_from % 4; ...`
XanyHBlockExit ==
    /\ pc = "ah_block"
    /\ ~(i < XanyHBlockBound(x_len, offset_from))
    /\ IF offset_from # 0
         THEN pc' = "ah_quad" /\ tail' = TailOf(offset_from)
         ELSE pc' = "ah_rollup" /\ tail' = tail
    /\ UNCHANGED <<kernel, debug, DIMS, x_pat, x_len, o_pat, output,
                   offset_from, i, j, accs, acc, extra, result, reads, writes,
                   count, panic, last>>

XanyHQuad ==
    /\ pc = "ah_quad"
    /\ i < XanyHQuadBound(x_len, tail)
    /\ \E g \in GarbageAt(i + 4) :
         accs' = XanyHQuadAdd(accs, LoaduPd(i, g))
    /\ reads' = reads \o LaneIdx(i)
    /\ count' = [count EXCEPT !.quad = @ + 1]
    /\ i' = i + 4
    /\ UNCHANGED <<kernel, debug, DIMS, x_pat, x_len, o_pat, output, pc,
                   offset_from, tail, j, acc, extra, result, writes, panic,
                   last>>

XanyHQuadExit ==
    /\ pc = "ah_quad"
    /\ ~(i < XanyHQuadBound(x_len, tail))
    /\ pc' = "ah_scalar"
    /\ UNCHANGED <<kernel, debug, DIMS, x_pat, x_len, o_pat, output,
                   offset_from, tail, i, j, accs, acc, extra, result, reads,
                   writes, count, panic, last>>

XanyHScalar ==
    /\ pc = "ah_scalar"
    /\ i < x_len
    /\ extra' = extra + Elem(i, 0)
    /\ reads' = Append(reads, i)
    /\ count' = [count EXCEPT !.scalar = @ + 1]
    /\ i' = i + 1
    /\ UNCHANGED <<kernel, debug, DIMS, x_pat, x_len, o_pat, output, pc,
                   offset_from, tail, j, accs, acc, result, writes, panic,
                   last>>

XanyHScalarExit ==
    /\ pc = "ah_scalar"
    /\ ~(i < x_len)
    /\ pc' = "ah_rollup"
    /\ UNCHANGED <<kernel, debug, DIMS, x_pat, x_len, o_pat, output,
                   offset_from, tail, i, j, accs, acc, extra, result, reads,
                   writes, count, panic, last>>

XanyHRollup ==
    /\ pc = "ah_rollup"
    /\ result' = XanyHReturn(extra, accs)
    /\ count' = [count EXCEPT !.rollup = @ + 1]
    /\ pc' = "done"
    /\ UNCHANGED <<kernel, debug, DIMS, x_pat, x_len, o_pat, output,
                   offset_from, tail, i, j, accs, acc, extra, reads, writes,
                   panic, last>>

(***************************************************************************)
(* min_vertical_component                                                  *)
(***************************************************************************)
\* Mutation: the second store writes acc1 again instead of acc2.
MvcStores_Acc1Twice(out, p, a) ==
    [k \in 1..Len(out) |->
        IF k - 1 >= p /\ k - 1 < p + 32
            THEN IF k - 1 < p + 8 THEN a[1][((k - 1 - p) % 4) + 1]
                 ELSE a[((k - 1 - p) \div 4) + 1][((k - 1 - p) % 4) + 1]
            ELSE out[k]]

\* The eight stores `_mm256_storeu_pd(results_ptr.add(i + 4 * (r - 1)), acc_r)`:
\* slot p + 4 * (r - 1) + (l - 1) takes lane l of acc_r; lanes past the end
\* of the buffer are not part of the buffer.
MvcStores(out, p, a) ==
    [k \in 1..Len(out) |->
        IF k - 1 >= p /\ k - 1 < p + 32
            THEN a[((k - 1 - p) \div 4) + 1][((k - 1 - p) % 4) + 1]
            ELSE out[k]]

\* Mutation: the row offset is not advanced.
RowStep_Stuck(row, d) == row

\* `j += dims`
RowStep(row, d) == row + d

MvcRow ==
    /\ pc = "mvc_rows"
    /\ j < x_len
    /\ \E g \in GarbageAt(j + i + 32) :
         accs' = SumX64Block(j + i, accs, g)
    /\ reads' = reads \o BlockIdx(j + i)
    /\ count' = [count EXCEPT !.block = @ + 1]
    /\ j' = RowStep(j, Dims)
    /\ UNCHANGED <<kernel, debug, DIMS, x_pat, x_len, o_pat, output, pc,
                   offset_from, tail, i, acc, extra, result, writes, panic,
                   last>>

\* The row loop is over: the eight stores, the return, and the caller's
\* `i += 32`.
MvcStore ==
    /\ pc = "mvc_rows"
    /\ ~(j < x_len)
    /\ output' = MvcStores(output, i, accs)
    /\ writes' = writes \o BlockIdx(i)
    /\ i' = i + 32
    /\ pc' = IF kernel = "xconst_v" THEN "cv_cols" ELSE "av_cols"
    /\ UNCHANGED <<kernel, debug, DIMS, x_pat, x_len, o_pat, offset_from,
                   tail, j, accs, acc, extra, result, reads, count, panic,
                   last>>

(***************************************************************************)
(* f64_xconst_avx2_nofma_sum_vertical                                      *)
(***************************************************************************)
\* Why the debug assertions of the xconst vertical kernel panic, "none" if
\* they pass.  `matrix.len() % DIMS` is a remainder by zero when DIMS is 0.
XconstVAsserts(D, n, olen) ==
    IF D % 32 # 0 THEN "assert"
    ELSE IF D = 0 THEN "rem_by_zero"
    ELSE IF n % D # 0 THEN "assert"
    ELSE IF olen # D THEN "assert"
    ELSE "none"

CallXconstV ==
    /\ pc = "idle"
    /\ \E dbg \in BOOLEAN, D \in 0..MaxDims, rows \in 0..MaxRows,
          p \in Pats, q \in OPats :
         LET n == MatrixLen(rows, D)
             why == IF dbg THEN XconstVAsserts(D, n, D) ELSE "none"
         IN  Enter("xconst_v", dbg, D, p, n, q, OutputOf(q, D),
                   IF why = "none" THEN "cv_cols" ELSE "panic", 0, why,
                   NoCall)

\* `while i < DIMS { min_vertical_component(i, ..) ..`: the call, up to its
\* row loop.
XconstVCol ==
    /\ pc = "cv_cols"
    /\ i < DIMS
    /\ accs' = ZeroAccs
    /\ j' = 0
    /\ pc' = "mvc_rows"
    /\ UNCHANGED <<kernel, debug, DIMS, x_pat, x_len, o_pat, output,
                   offset_from, tail, i, acc, extra, result, reads, writes,
                   count, panic, last>>

XconstVReturn ==
    /\ pc = "cv_cols"
    /\ ~(i < DIMS)
    /\ pc' = "done"
    /\ UNCHANGED <<kernel, debug, DIMS, x_pat, x_len, o_pat, output,
                   offset_from, tail, i, j, accs, acc, extra, result, reads,
                   writes, count, panic, last>>

(***************************************************************************)
(* f64_xany_avx2_nofma_sum_vertical                                        *)
(***************************************************************************)
\* Why the debug assertion of the xany vertical kernel panics, "none" if it
\* passes.  `matrix.len() % dims` is a remainder by zero when dims is 0.
XanyVAsserts(d, n) ==
    IF d = 0 THEN "rem_by_zero"
    ELSE IF n % d # 0 THEN "assert"
    ELSE "none"

XanyVBlockBound(d, off) == d - off

\* Mutation: the 4-wide column loop runs to dims, not to dims - tail.
XanyVQuadBound_NoTail(d, t) == d

XanyVQuadBound(d, t) == d - t

\* Mutation: the scalar tail stores the element instead of adding it.
XanyVScalarAdd_Overwrite(o, m) == m

\* `*output.get_unchecked_mut(i) += *matrix.get_unchecked(j + i)`
XanyVScalarAdd(o, m) == o + m

CallXanyV ==
    \/ /\ pc = "idle"
       /\ \E dbg \in BOOLEAN, d \in 0..MaxDims, rows \in 0..MaxRows,
             p \in Pats, q \in OPats :
            LET n == MatrixLen(rows, d)
                why == IF dbg THEN XanyVAsserts(d, n) ELSE "none"
            IN  Enter("xany_v", dbg, 0, p, n, q, OutputOf(q, d),
                      IF why = "none" THEN "av_cols" ELSE "panic",
                      OffsetFrom(d), why, NoCall)
    \/ /\ pc = "done"
       /\ kernel = "xconst_v"
       /\ LET d == Len(output)
              why == IF debug THEN XanyVAsserts(d, x_len) ELSE "none"
          IN  Enter("xany_v", debug, 0, x_pat, x_len, o_pat,
                    OutputOf(o_pat, d),
                    IF why = "none" THEN "av_cols" ELSE "panic",
                    OffsetFrom(d), why, Finished)

XanyVCol ==
    /\ pc = "av_cols"
    /\ i < XanyVBlockBound(Dims, offset_from)
    /\ accs' = ZeroAccs
    /\ j' = 0
    /\ pc' = "mvc_rows"
    /\ UNCHANGED <<kernel, debug, DIMS, x_pat, x_len, o_pat, output,
                   offset_from, tail, i, acc, extra, result, reads, writes,
                   count, panic, last>>

\* The block loop is over: `if offset_from != 0 { let tail = offset_from % 4; ...`
XanyVColExit ==
    /\ pc = "av_cols"
    /\ ~(i < XanyVBlockBound(Dims, offset_from))
    /\ IF offset_from # 0
         THEN pc' = "av_quad" /\ tail' = TailOf(offset_from)
         ELSE pc' = "done" /\ tail' = tail
    /\ UNCHANGED <<kernel, debug, DIMS, x_pat, x_len, o_pat, output,
                   offset_from, i, j, accs, acc, extra, result, reads, writes,
                   count, panic, last>>

XanyVQuad ==
    /\ pc = "av_quad"
    /\ i < XanyVQuadBound(Dims, tail)
    /\ acc' = ZeroPd
    /\ j' = 0
    /\ pc' = "av_quad_rows"
    /\ UNCHANGED <<kernel, debug, DIMS, x_pat, x_len, o_pat, output,
                   offset_from, tail, i, accs, extra, result, reads, writes,
                   count, panic, last>>

XanyVQuadExit ==
    /\ pc = "av_quad"
    /\ ~(i < XanyVQuadBound(Dims, tail))
    /\ pc' = "av_scalar"
    /\ UNCHANGED <<kernel, debug, DIMS, x_pat, x_len, o_pat, output,
                   offset_from, tail, i, j, accs, acc, extra, result, reads,
                   writes, count, panic, last>>

XanyVQuadRow ==
    /\ pc = "av_quad_rows"
    /\ j < x_len
    /\ \E g \in GarbageAt(j + i + 4) :
         acc' = AddPd(acc, LoaduPd(j + i, g))
    /\ reads' = reads \o LaneIdx(j + i)
    /\ count' = [count EXCEPT !.quad = @ + 1]
    /\ j' = RowStep(j, Dims)
    /\ UNCHANGED <<kernel, debug, DIMS, x_pat, x_len, o_pat, output, pc,
                   offset_from, tail, i, accs, extra, result, writes, panic,
                   last>>

XanyVQuadStore ==
    /\ pc = "av_quad_rows"
    /\ ~(j < x_len)
    /\ output' = StoreuPd(output, i, acc)
    /\ writes' = writes \o LaneIdx(i)
    /\ i' = i + 4
    /\ pc' = "av_quad"
    /\ UNCHANGED <<kernel, debug, DIMS, x_pat, x_len, o_pat, offset_from,
                   tail, j, accs, acc, extra, result, reads, count, panic,
                   last>>

XanyVScalar ==
    /\ pc = "av_scalar"
    /\ i < Dims
    /\ j' = 0
    /\ pc' = "av_scalar_rows"
    /\ UNCHANGED <<kernel, debug, DIMS, x_pat, x_len, o_pat, output,
                   offset_from, tail, i, accs, acc, extra, result, reads,
                   writes, count, panic, last>>

XanyVScalarExit ==
    /\ pc = "av_scalar"
    /\ ~(i < Dims)
    /\ pc' = "done"
    /\ UNCHANGED <<kernel, debug, DIMS, x_pat, x_len, o_pat, output,
                   offset_from, tail, i, j, accs, acc, extra, result, reads,
                   writes, count, panic, last>>

XanyVScalarRow ==
    /\ pc = "av_scalar_rows"
    /\ j < x_len
    /\ output' = [output EXCEPT ![i + 1] = XanyVScalarAdd(@, Elem(j + i, 0))]
    /\ reads' = Append(reads, j + i)
    /\ writes' = Append(writes, i)
    /\ count' = [count EXCEPT !.scalar = @ + 1]
    /\ j' = RowStep(j, Dims)
    /\ UNCHANGED <<kernel, debug, DIMS, x_pat, x_len, o_pat, pc, offset_from,
                   tail, i, accs, acc, extra, result, panic, last>>

XanyVScalarNext ==
    /\ pc = "av_scalar_rows"
    /\ ~(j < x_len)
    /\ i' = i + 1
    /\ pc' = "av_scalar"
    /\ UNCHANGED <<kernel, debug, DIMS, x_pat, x_len, o_pat, output,
                   offset_from, tail, j, accs, acc, extra, result, reads,
                   writes, count, panic, last>>

(***************************************************************************)
(* The caller takes the result (or the panic) and is free to call again.   *)
(***************************************************************************)
Return ==
    /\ pc \in {"done", "panic"}
    /\ Enter("none", FALSE, 0, 1, 0, 0, <<>>, "idle", 0, "none", NoCall)

Next ==
    \/ CallXconstH \/ XconstHBlock \/ XconstHBlockExit \/ XconstHRollup
    \/ CallXanyH \/ XanyHBlock \/ XanyHBlockExit
    \/ XanyHQuad \/ XanyHQuadExit \/ XanyHScalar \/ XanyHScalarExit
    \/ XanyHRollup
    \/ CallXconstV \/ XconstVCol \/ XconstVReturn
    \/ CallXanyV \/ XanyVCol \/ XanyVColExit
    \/ XanyVQuad \/ XanyVQuadExit \/ XanyVQuadRow \/ XanyVQuadStore
    \/ XanyVScalar \/ XanyVScalarExit \/ XanyVScalarRow \/ XanyVScalarNext
    \/ MvcRow \/ MvcStore
    \/ Return

Spec == Init /\ [][Next]_vars

(***************************************************************************)
(* The references the tests compare the kernels with.                      *)
(***************************************************************************)
\* x.iter().sum(): the left-to-right sum of the first n elements of buffer p.
RECURSIVE SumTo(_, _)
SumTo(p, n) == IF n = 0 THEN 0 ELSE SumTo(p, n - 1) + X(p, n - 1)

\* arr.sum_axis(Axis(0))[c]: column c of the rows x d matrix in buffer p.
RECURSIVE ColSum(_, _, _, _)
ColSum(p, d, rows, c) ==
    IF rows = 0 THEN 0 ELSE ColSum(p, d, rows - 1, c) + X(p, (rows - 1) * d + c)

\* The number of rows of the matrix of a vertical call.
Rows == IF Dims = 0 THEN 0 ELSE x_len \div Dims

Vertical == {"xconst_v", "xany_v"}

\* How often output slot c was written in this call.
TimesWritten(c) == Cardinality({n \in 1..Len(writes) : writes[n] = c})

(***************************************************************************)
(* C1.  The xany horizontal kernel returns exactly the left-to-right sum   *)
(* of all len elements, for every length (0, multiples of 32, remainders   *)
(* that are multiples of 4, remainders with 1..3 scalar elements).         *)
(***************************************************************************)
C1_XanyHorizontalSum ==
    (kernel = "xany_h" /\ pc = "done") => result = SumTo(x_pat, x_len)

\* A finished call on more than one block, with 4-wide and scalar tails.
C1_Witness ==
    /\ kernel = "xany_h"
    /\ pc = "done"
    /\ x_len > 64
    /\ (x_len % 32) >= 4
    /\ x_len % 4 # 0
    /\ result = SumTo(x_pat, x_len)
    /\ result # 0

(***************************************************************************)
(* C2.  With an output buffer that is all zero before the call, the xany   *)
(* vertical kernel leaves in every output[c] the sum of column c over all  *)
(* rows, for every N >= 0 and D >= 1.                                      *)
(***************************************************************************)
C2_XanyVerticalSum ==
    (kernel = "xany_v" /\ pc = "done" /\ o_pat = 0 /\ Dims >= 1) =>
        \A c \in 0..(Dims - 1) :
            output[c + 1] = ColSum(x_pat, Dims, Rows, c)

\* A finished call with a block, a 4-wide tail and a scalar tail, two rows.
C2_Witness ==
    /\ kernel = "xany_v"
    /\ pc = "done"
    /\ o_pat = 0
    /\ Dims > 32
    /\ (Dims % 32) >= 4
    /\ Dims % 4 # 0
    /\ Rows = 2
    /\ \A c \in 0..(Dims - 1) : output[c + 1] = ColSum(x_pat, Dims, Rows, c)

(***************************************************************************)
(* C3 (as stated).  A vertical kernel called with a zero-row matrix writes *)
(* nothing into the output buffer: every output[c] keeps the value it had  *)
(* before the call.                                                        *)
(***************************************************************************)
C3_ZeroRowsLeaveOutput ==
    (kernel \in Vertical /\ x_len = 0 /\ DIMS % 32 = 0) =>
        /\ writes = <<>>
        /\ output = OutputOf(o_pat, Len(output))

(***************************************************************************)
(* C4 (as stated).  In one call of the xany vertical kernel every output   *)
(* slot is written exactly once, for every N and every D.                  *)
(***************************************************************************)
C4_EverySlotWrittenOnce ==
    (kernel = "xany_v" /\ pc = "done") =>
        \A c \in 0..(Dims - 1) : TimesWritten(c) = 1

(***************************************************************************)
(* C5.  When the caller's preconditions hold, every element index read     *)
(* lies in [0, input length) (so every 32-element and every 4-element load *)
(* ends at or before the end of the input), every index written lies in    *)
(* [0, D), and len - offset_from, len - tail, dims - offset_from and       *)
(* dims - tail do not underflow.                                           *)
(***************************************************************************)
\* n is a multiple of d.
MultipleOf(n, d) == IF d = 0 THEN n = 0 ELSE n % d = 0

\* The preconditions of the running call.
Pre ==
    \/ kernel = "xconst_h" /\ DIMS % 32 = 0 /\ x_len = DIMS
    \/ kernel = "xany_h"
    \/ kernel = "xconst_v" /\ DIMS % 32 = 0 /\ MultipleOf(x_len, DIMS)
                           /\ Len(output) = DIMS
    \/ kernel = "xany_v" /\ Dims >= 1 /\ MultipleOf(x_len, Dims)

C5_InBounds ==
    Pre =>
        /\ \A n \in 1..Len(reads) : reads[n] >= 0 /\ reads[n] < x_len
        /\ \A n \in 1..Len(writes) : writes[n] >= 0 /\ writes[n] < Dims
        /\ kernel = "xany_h" => offset_from <= x_len /\ tail <= x_len
        /\ kernel = "xany_v" => offset_from <= Dims /\ tail <= Dims

\* A finished xany vertical call that used block, 4-wide and scalar columns
\* on two rows and read the whole matrix.
C5_Witness ==
    /\ Pre
    /\ kernel = "xany_v"
    /\ pc = "done"
    /\ Rows = 2
    /\ Dims > 32
    /\ tail # 0
    /\ offset_from > 4
    /\ Len(reads) = x_len
    /\ Len(writes) >= Dims

(***************************************************************************)
(* C6.  The xconst horizontal kernel called with x.len() = DIMS: if        *)
(* DIMS % 32 # 0 a debug build fails its assertion and a release build     *)
(* reads an element index >= DIMS in the block loop; if DIMS % 32 = 0 no   *)
(* assertion fails and no index >= DIMS is read.                           *)
(***************************************************************************)
ReadsPast(n) == \E k \in 1..Len(reads) : reads[k] >= n

C6_XconstHorizontalContract ==
    (kernel = "xconst_h" /\ x_len = DIMS) =>
        /\ (DIMS % 32 # 0 /\ debug) => (pc = "panic" /\ panic = "assert")
        /\ (DIMS % 32 # 0 /\ ~debug) =>
              /\ pc # "panic"
              /\ pc \in {"ch_rollup", "done"} => ReadsPast(DIMS)
        /\ DIMS % 32 = 0 => (pc # "panic" /\ ~ReadsPast(DIMS))

\* A release build, DIMS not a multiple of 32: the call returned after an
\* out-of-bounds read.
C6_Witness ==
    /\ kernel = "xconst_h"
    /\ x_len = DIMS
    /\ DIMS % 32 # 0
    /\ DIMS > 32
    /\ ~debug
    /\ pc = "done"
    /\ ReadsPast(DIMS)

RECURSIVE BlockLane(_, _, _, _)
BlockLane(p, r, l, nb) ==
    IF nb = 0 THEN 0
    ELSE BlockLane(p, r, l, nb - 1) + X(p, 32 * (nb - 1) + 4 * (r - 1) + l - 1)

\* Lane l of nq consecutive 4-element loads starting at element base.
RECURSIVE QuadLane(_, _, _, _)
QuadLane(p, base, l, nq) ==
    IF nq = 0 THEN 0
    ELSE QuadLane(p, base, l, nq - 1) + X(p, base + 4 * (nq - 1) + l - 1)

C9_ThreeTiers ==
    kernel = "xany_h" =>
        LET nb == x_len \div 32
            nq == (x_len % 32) \div 4
            ns == x_len % 4
        IN  /\ \A n \in 1..Len(reads) : reads[n] = n - 1
            /\ Len(reads) = 32 * count.block + 4 * count.quad + count.scalar
            /\ count.block <= nb /\ count.quad <= nq /\ count.scalar <= ns
            /\ count.quad > 0 => count.block = nb
            /\ count.scalar > 0 => (count.block = nb /\ count.quad = nq)
            /\ \A r \in 2..8, l \in 1..4 :
                   accs[r][l] = BlockLane(x_pat, r, l, count.block)
            /\ \A l \in 1..4 :
                   accs[1][l] = BlockLane(x_pat, 1, l, count.block)
                                + QuadLane(x_pat, 32 * nb, l, count.quad)
            /\ extra = SumTo(x_pat, 32 * nb + 4 * nq + count.scalar)
                       - SumTo(x_pat, 32 * nb + 4 * nq)
            /\ count.rollup = IF pc = "done" THEN 1 ELSE 0
            /\ pc \in {"ah_rollup", "done"} =>
                   (count.block = nb /\ count.quad = nq /\ count.scalar = ns)

\* A finished call that went through all three tiers.
C9_Witness ==
    /\ kernel = "xany_h"
    /\ pc = "done"
    /\ count.block = 2
    /\ count.quad >= 1
    /\ count.scalar >= 2
    /\ count.rollup = 1
    /\ Len(reads) = x_len

(***************************************************************************)
(* C10.  For a dimension D that is a multiple of 32 the xany kernels do    *)
(* what the xconst kernels do on the same buffers: the xany horizontal     *)
(* kernel on a vector of length D makes the same block accumulations into  *)
(* the same 8 accumulators as the xconst kernel with DIMS = D, never       *)
(* enters a tail loop and returns the same value; the xany vertical kernel *)
(* with output length D makes the same reads and stores and leaves the     *)
(* same output buffer as the xconst kernel with DIMS = D, for every N.     *)
(***************************************************************************)
IsPrefix(a, b) == Len(a) <= Len(b) /\ a = SubSeq(b, 1, Len(a))

C10_XanyAsXconst ==
    /\ (kernel = "xany_h" /\ last.kernel = "xconst_h" /\ last.DIMS = x_len
            /\ x_len % 32 = 0) =>
          /\ pc \notin {"ah_quad", "ah_scalar", "panic"}
          /\ IsPrefix(reads, last.reads)
          /\ pc \in {"ah_rollup", "done"} =>
                (reads = last.reads /\ accs = last.accs)
          /\ pc = "done" => result = last.result
    /\ (kernel = "xany_v" /\ last.kernel = "xconst_v"
            /\ last.DIMS = Len(output) /\ Len(output) % 32 = 0) =>
          /\ pc \notin {"av_quad", "av_quad_rows", "av_scalar",
                        "av_scalar_rows", "panic"}
          /\ IsPrefix(reads, last.reads)
          /\ IsPrefix(writes, last.writes)
          /\ pc = "done" =>
                /\ reads = last.reads
                /\ writes = last.writes
                /\ output = last.output

\* The xany vertical kernel has finished on the two-row matrix and the
\* non-zero output buffer the xconst kernel was called with before.
C10_Witness ==
    /\ kernel = "xany_v"
    /\ last.kernel = "xconst_v"
    /\ last.DIMS = Len(output)
    /\ Len(output) >= 32
    /\ Len(output) % 32 = 0
    /\ Rows = 2
    /\ o_pat # 0
    /\ pc = "done"
    /\ output = last.output

(***************************************************************************)
(* Termination.  A kernel runs on the calling thread without suspension:   *)
(* a call that has been entered keeps taking steps until it returns or     *)
(* panics.                                                                 *)
(***************************************************************************)
KernelStep ==
    \/ XconstHBlock \/ XconstHBlockExit \/ XconstHRollup
    \/ XanyHBlock \/ XanyHBlockExit
    \/ XanyHQuad \/ XanyHQuadExit \/ XanyHScalar \/ XanyHScalarExit
    \/ XanyHRollup
    \/ XconstVCol \/ XconstVReturn
    \/ XanyVCol \/ XanyVColExit
    \/ XanyVQuad \/ XanyVQuadExit \/ XanyVQuadRow \/ XanyVQuadStore
    \/ XanyVScalar \/ XanyVScalarExit \/ XanyVScalarRow \/ XanyVScalarNext
    \/ MvcRow \/ MvcStore

FairSpec == Init /\ [][Next]_vars /\ WF_vars(KernelStep)

RowLoops == {"mvc_rows", "av_quad_rows", "av_scalar_rows"}

Running == pc \notin {"idle", "done", "panic"}

(***************************************************************************)
(* C7.  Every call of each kernel terminates: it runs to completion and    *)
(* returns, for every input size, dimension 0 included (where the row loop *)
(* with stride dims = 0 is never entered).  Stated for the xany vertical   *)
(* kernel, which documents no restriction on the dimension: no call of it  *)
(* ends in a panic.                                                        *)
(***************************************************************************)
C7_EveryCallReturns == kernel = "xany_v" => pc # "panic"

(***************************************************************************)
(* What does hold of termination.  Each loop iteration strictly increases  *)
(* its index (i over elements or columns, j over rows).                    *)
(***************************************************************************)
LoopsAdvance ==
    (Running /\ pc' # "idle") =>
        /\ i' >= i
        /\ pc' = pc => (IF pc \in RowLoops THEN j' > j /\ i' = i ELSE i' > i)
        /\ (pc \in RowLoops /\ pc' \notin RowLoops) => i' > i

\* A call panics only in a debug build and only before any loop is entered;
\* the remainder by zero happens exactly at dimension 0 of a vertical
\* kernel; the row loops are never entered at dimension 0.
PanicOnlyInDebug ==
    /\ pc = "panic" <=> panic # "none"
    /\ pc = "panic" => (debug /\ reads = <<>> /\ writes = <<>>
                              /\ count = ZeroCount)
    /\ (pc = "panic" /\ panic = "rem_by_zero") <=>
           (debug /\ kernel \in Vertical /\ Dims = 0 /\ DIMS = 0)
    /\ (kernel \in Vertical /\ Dims = 0) => pc \notin RowLoops

\* Every call that has been entered ends, by returning or by a debug panic.
Terminates ==
    /\ []PanicOnlyInDebug
    /\ [][LoopsAdvance]_vars
    /\ Running ~> (pc \in {"done", "panic"})

====
